---------------------------- MODULE Spec2Model ----------------------------
(***************************************************************************)
(* Model of juju's hardware-characteristics codec (instance/instance.go:   *)
(* ParseHardware, setRaw, the seven setters, parseTags, parseUint64,       *)
(* parseSize, HardwareCharacteristics.String) and of the relation-set hook *)
(* command's Run (worker/uniter/runner/jujuc/relation-set.go).             *)
(*                                                                         *)
(* A Go string is a sequence of one-character strings.  A Go pointer field *)
(* is a sequence of length 0 (nil) or 1 (pointer to the element).          *)
(***************************************************************************)
EXTENDS Integers, Sequences, FiniteSets, TLC

(***************************************************************************)
(* Bounds.                                                                 *)
(***************************************************************************)
\* Longest token sequence drawn freely from SeqTokens.
MaxTokens == 2
\* Number of successive relation-set invocations explored.
MaxRuns == 2

(***************************************************************************)
(* Go standard library: strings, strconv, math, fmt and unicode.            *)
(***************************************************************************)
\* unicode.IsSpace restricted to the whitespace characters the inputs use.
IsSpace(c) == c \in {" ", "\t", "\n", "\r"}

RECURSIVE TrimLeft(_)
TrimLeft(s) ==
    IF s # <<>> /\ IsSpace(Head(s)) THEN TrimLeft(Tail(s)) ELSE s

RECURSIVE TrimRight(_)
TrimRight(s) ==
    IF s # <<>> /\ IsSpace(s[Len(s)])
    THEN TrimRight(SubSeq(s, 1, Len(s) - 1))
    ELSE s

\* strings.TrimSpace: strips every leading and trailing whitespace character.
TrimSpace(s) == TrimRight(TrimLeft(s))

\* strings.Index for a one-character separator: 0-based, -1 when absent.
Index(s, c) ==
    IF \E i \in 1..Len(s) : s[i] = c
    THEN (CHOOSE i \in 1..Len(s) : s[i] = c /\ \A j \in 1..(i - 1) : s[j] # c) - 1
    ELSE -1

\* strings.Split for a one-character separator; Split("", sep) is <<"">>.
RECURSIVE Split(_, _)
Split(s, sep) ==
    LET i == Index(s, sep) IN
    IF i < 0 THEN <<s>>
    ELSE <<SubSeq(s, 1, i)>> \o Split(SubSeq(s, i + 2, Len(s)), sep)

\* strings.Join.
RECURSIVE Join(_, _)
Join(strs, sep) ==
    IF strs = <<>> THEN <<>>
    ELSE IF Len(strs) = 1 THEN strs[1]
    ELSE strs[1] \o sep \o Join(Tail(strs), sep)

Digits == {"0", "1", "2", "3", "4", "5", "6", "7", "8", "9"}

DigitVal(c) ==
    CASE c = "0" -> 0 [] c = "1" -> 1 [] c = "2" -> 2 [] c = "3" -> 3
      [] c = "4" -> 4 [] c = "5" -> 5 [] c = "6" -> 6 [] c = "7" -> 7
      [] c = "8" -> 8 [] c = "9" -> 9

DigitChar(d) ==
    CASE d = 0 -> "0" [] d = 1 -> "1" [] d = 2 -> "2" [] d = 3 -> "3"
      [] d = 4 -> "4" [] d = 5 -> "5" [] d = 6 -> "6" [] d = 7 -> "7"
      [] d = 8 -> "8" [] d = 9 -> "9"

AllDigits(s) == \A i \in 1..Len(s) : s[i] \in Digits

\* Value of a digit string (0 for the empty string).
RECURSIVE DigitsVal(_)
DigitsVal(s) ==
    IF s = <<>> THEN 0
    ELSE 10 * DigitsVal(SubSeq(s, 1, Len(s) - 1)) + DigitVal(s[Len(s)])

RECURSIVE Pow10(_)
Pow10(n) == IF n = 0 THEN 1 ELSE 10 * Pow10(n - 1)

\* fmt.Sprintf("%d", n) for an unsigned n.
RECURSIVE Itoa(_)
Itoa(n) ==
    IF n < 10 THEN <<DigitChar(n)>>
    ELSE Append(Itoa(n \div 10), DigitChar(n % 10))

\* strconv.ParseUint(str, 10, 64): digits only, at least one, no sign.
\* The inputs stay far below 2^64, so the range error never arises.
ParseUint(str) ==
    IF str # <<>> /\ AllDigits(str)
    THEN [ok |-> TRUE, val |-> DigitsVal(str)]
    ELSE [ok |-> FALSE, val |-> 0]

\* strconv.ParseFloat(str, 64) on the decimal syntax
\*   [+-] digits [ . digits ]   with at least one digit,
\* as the exact rational num/den with sign neg.  Any other character makes
\* it a syntax error; the inputs contain none of the characters that start
\* Go's other float syntaxes (exponents, hex, underscores, inf, nan).
\* Every input has at most 3 fractional digits and a product below 2^31, so
\* the float64 nearest to num/den, scaled by a power of two, has the same
\* ceiling as the exact rational.
ParseFloat(str) ==
    LET signed == str # <<>> /\ str[1] \in {"+", "-"}
        neg    == str # <<>> /\ str[1] = "-"
        body   == IF signed THEN Tail(str) ELSE str
        dot    == Index(body, ".")
        int    == IF dot < 0 THEN body ELSE SubSeq(body, 1, dot)
        frac   == IF dot < 0 THEN <<>> ELSE SubSeq(body, dot + 2, Len(body))
    IN  IF AllDigits(int) /\ AllDigits(frac) /\ Len(int) + Len(frac) > 0
        THEN [ok |-> TRUE, neg |-> neg,
              num |-> DigitsVal(int \o frac), den |-> Pow10(Len(frac))]
        ELSE [ok |-> FALSE, neg |-> FALSE, num |-> 0, den |-> 1]

\* Mutant of Ceil: the product is truncated, uint64(val), not rounded up.
Ceil_truncated(num, mult, den) == (num * mult) \div den

\* uint64(math.Ceil(num * mult / den)) for a non-negative value.
Ceil(num, mult, den) == (num * mult + den - 1) \div den


(***************************************************************************)
(* instance.HardwareCharacteristics and its parser.                        *)
(***************************************************************************)
Nil == <<>>
Ptr(v) == <<v>>
Deref(p) == p[1]

\* HardwareCharacteristics{}: every pointer field nil.
EmptyHC ==
    [Arch |-> Nil, Mem |-> Nil, RootDisk |-> Nil, CpuCores |-> Nil,
     CpuPower |-> Nil, Tags |-> Nil, AvailabilityZone |-> Nil]

kArch     == <<"a", "r", "c", "h">>
kCores    == <<"c", "o", "r", "e", "s">>
kCpuPower == <<"c", "p", "u", "-", "p", "o", "w", "e", "r">>
kMem      == <<"m", "e", "m">>
kRootDisk == <<"r", "o", "o", "t", "-", "d", "i", "s", "k">>
kTags     == <<"t", "a", "g", "s">>
kAZ       == <<"a", "v", "a", "i", "l", "a", "b", "i", "l", "i", "t", "y",
               "-", "z", "o", "n", "e">>

\* The case labels of setRaw's switch.
KnownNames == {kArch, kCores, kCpuPower, kMem, kRootDisk, kTags, kAZ}

amd64 == <<"a", "m", "d", "6", "4">>
arm64 == <<"a", "r", "m", "6", "4">>

\* arch.IsSupportedArch of github.com/juju/utils/arch, as far as the inputs
\* can tell: amd64 and arm64 are supported, the other names drawn are not.
IsSupportedArch(str) == str \in {amd64, arm64}

\* An error value: nil, or the parts of the fmt.Errorf message.
NoErr == [kind |-> "nil", subject |-> <<>>, cause |-> ""]
ErrMalformed(raw) ==
    [kind |-> "malformed characteristic", subject |-> raw, cause |-> ""]
ErrUnknown(name) ==
    [kind |-> "unknown characteristic", subject |-> name, cause |-> ""]
ErrBad(name, cause) ==
    [kind |-> "bad characteristic", subject |-> name, cause |-> cause]

AlreadySet    == "already set"
NotRecognized == "not recognized"
BadUint       == "must be a non-negative integer"
BadSize       == "must be a non-negative float with optional M/G/T/P suffix"

\* parseTags.
parseTags(s) ==
    IF s = <<>> THEN Ptr(<<>>) ELSE Ptr(Split(s, ","))

\* parseUint64: the pointer and the error ("" is nil).
parseUint64(str) ==
    IF str # <<>>
    THEN LET r == ParseUint(str) IN
         IF ~r.ok THEN [ptr |-> Nil, err |-> BadUint]
         ELSE [ptr |-> Ptr(r.val), err |-> ""]
    ELSE [ptr |-> Ptr(0), err |-> ""]

\* mbSuffixes.
mbSuffixes ==
    [c \in {"M", "G", "T", "P"} |->
        CASE c = "M" -> 1
          [] c = "G" -> 1024
          [] c = "T" -> 1024 * 1024
          [] c = "P" -> 1024 * 1024 * 1024]

\* Mutant of parseSize: the val < 0 test is left out.
parseSize_signIgnored(s) ==
    IF s # <<>>
    THEN LET last == s[Len(s)]
             has  == last \in DOMAIN mbSuffixes
             str  == IF has THEN SubSeq(s, 1, Len(s) - 1) ELSE s
             mult == IF has THEN mbSuffixes[last] ELSE 1
             f    == ParseFloat(str)
         IN  IF ~f.ok
             THEN [ptr |-> Nil, err |-> BadSize]
             ELSE [ptr |-> Ptr(Ceil(f.num, mult, f.den)), err |-> ""]
    ELSE [ptr |-> Ptr(0), err |-> ""]

\* parseSize.
parseSize(s) ==
    IF s # <<>>
    THEN LET last == s[Len(s)]
             has  == last \in DOMAIN mbSuffixes
             str  == IF has THEN SubSeq(s, 1, Len(s) - 1) ELSE s
             mult == IF has THEN mbSuffixes[last] ELSE 1
             f    == ParseFloat(str)
         IN  IF ~f.ok \/ (f.neg /\ f.num > 0)
             THEN [ptr |-> Nil, err |-> BadSize]
             ELSE [ptr |-> Ptr(Ceil(f.num, mult, f.den)), err |-> ""]
    ELSE [ptr |-> Ptr(0), err |-> ""]

\* Each setter returns the record after the call and the error ("" is nil).
setArch(hc, str) ==
    IF hc.Arch # Nil THEN [hc |-> hc, err |-> AlreadySet]
    ELSE IF str # <<>> /\ ~IsSupportedArch(str)
    THEN [hc |-> hc, err |-> NotRecognized]
    ELSE [hc |-> [hc EXCEPT !.Arch = Ptr(str)], err |-> ""]

setCpuCores(hc, str) ==
    IF hc.CpuCores # Nil THEN [hc |-> hc, err |-> AlreadySet]
    ELSE LET r == parseUint64(str) IN
         [hc |-> [hc EXCEPT !.CpuCores = r.ptr], err |-> r.err]

setCpuPower(hc, str) ==
    IF hc.CpuPower # Nil THEN [hc |-> hc, err |-> AlreadySet]
    ELSE LET r == parseUint64(str) IN
         [hc |-> [hc EXCEPT !.CpuPower = r.ptr], err |-> r.err]

setMem(hc, str) ==
    IF hc.Mem # Nil THEN [hc |-> hc, err |-> AlreadySet]
    ELSE LET r == parseSize(str) IN
         [hc |-> [hc EXCEPT !.Mem = r.ptr], err |-> r.err]

setRootDisk(hc, str) ==
    IF hc.RootDisk # Nil THEN [hc |-> hc, err |-> AlreadySet]
    ELSE LET r == parseSize(str) IN
         [hc |-> [hc EXCEPT !.RootDisk = r.ptr], err |-> r.err]

setTags(hc, str) ==
    IF hc.Tags # Nil THEN [hc |-> hc, err |-> AlreadySet]
    ELSE [hc |-> [hc EXCEPT !.Tags = parseTags(str)], err |-> ""]

\* Mutant of setAvailabilityZone: the empty value is stored like any other.
setAvailabilityZone_storesEmpty(hc, str) ==
    IF hc.AvailabilityZone # Nil THEN [hc |-> hc, err |-> AlreadySet]
    ELSE [hc |-> [hc EXCEPT !.AvailabilityZone = Ptr(str)], err |-> ""]

setAvailabilityZone(hc, str) ==
    IF hc.AvailabilityZone # Nil THEN [hc |-> hc, err |-> AlreadySet]
    ELSE IF str # <<>>
    THEN [hc |-> [hc EXCEPT !.AvailabilityZone = Ptr(str)], err |-> ""]
    ELSE [hc |-> hc, err |-> ""]

\* Mutant of setRaw: the malformed test is eq < 0, so that an empty key goes
\* on to the switch.
setRaw_emptyKey(hc, raw) ==
    LET eq == Index(raw, "=") IN
    IF eq < 0 THEN [hc |-> hc, err |-> ErrMalformed(raw)]
    ELSE
      LET name == SubSeq(raw, 1, eq)
          str  == SubSeq(raw, eq + 2, Len(raw))
      IN  IF name \notin KnownNames
          THEN [hc |-> hc, err |-> ErrUnknown(name)]
          ELSE
            LET r == CASE name = kArch     -> setArch(hc, str)
                       [] name = kCores    -> setCpuCores(hc, str)
                       [] name = kCpuPower -> setCpuPower(hc, str)
                       [] name = kMem      -> setMem(hc, str)
                       [] name = kRootDisk -> setRootDisk(hc, str)
                       [] name = kTags     -> setTags(hc, str)
                       [] name = kAZ       -> setAvailabilityZone(hc, str)
            IN  IF r.err # ""
                THEN [hc |-> r.hc, err |-> ErrBad(name, r.err)]
                ELSE [hc |-> r.hc, err |-> NoErr]

\* setRaw: the record after the call and the error returned.
setRaw(hc, raw) ==
    LET eq == Index(raw, "=") IN
    IF eq <= 0 THEN [hc |-> hc, err |-> ErrMalformed(raw)]
    ELSE
      LET name == SubSeq(raw, 1, eq)
          str  == SubSeq(raw, eq + 2, Len(raw))
      IN  IF name \notin KnownNames
          THEN [hc |-> hc, err |-> ErrUnknown(name)]
          ELSE
            LET r == CASE name = kArch     -> setArch(hc, str)
                       [] name = kCores    -> setCpuCores(hc, str)
                       [] name = kCpuPower -> setCpuPower(hc, str)
                       [] name = kMem      -> setMem(hc, str)
                       [] name = kRootDisk -> setRootDisk(hc, str)
                       [] name = kTags     -> setTags(hc, str)
                       [] name = kAZ       -> setAvailabilityZone(hc, str)
            IN  IF r.err # ""
                THEN [hc |-> r.hc, err |-> ErrBad(name, r.err)]
                ELSE [hc |-> r.hc, err |-> NoErr]

\* Mutant of rawsLoop: on an error the accumulator is returned as it stands,
\* not HardwareCharacteristics{}.
RECURSIVE rawsLoop_partial(_, _)
rawsLoop_partial(st, raws) ==
    IF raws = <<>> \/ st.err # NoErr THEN st
    ELSE IF Head(raws) = <<>> THEN rawsLoop_partial(st, Tail(raws))
    ELSE LET r == setRaw(st.hc, Head(raws))
             calls == Append(st.calls, Head(raws))
         IN  IF r.err # NoErr
             THEN [hc |-> st.hc, err |-> r.err, calls |-> calls]
             ELSE rawsLoop_partial(
                      [hc |-> r.hc, err |-> NoErr, calls |-> calls],
                      Tail(raws))

\* The inner loop of ParseHardware over the raws of one argument.  st holds
\* the accumulator hc, the error returned so far and calls, the raws handed
\* to setRaw so far, in order.
RECURSIVE rawsLoop(_, _)
rawsLoop(st, raws) ==
    IF raws = <<>> \/ st.err # NoErr THEN st
    ELSE IF Head(raws) = <<>> THEN rawsLoop(st, Tail(raws))
    ELSE LET r == setRaw(st.hc, Head(raws))
             calls == Append(st.calls, Head(raws))
         IN  IF r.err # NoErr
             THEN [hc |-> EmptyHC, err |-> r.err, calls |-> calls]
             ELSE rawsLoop([hc |-> r.hc, err |-> NoErr, calls |-> calls],
                           Tail(raws))

\* The outer loop of ParseHardware over the arguments.
RECURSIVE argsLoop(_, _)
argsLoop(st, as) ==
    IF as = <<>> \/ st.err # NoErr THEN st
    ELSE argsLoop(rawsLoop(st, Split(TrimSpace(Head(as)), " ")), Tail(as))

\* ParseHardware(args...): the record and error returned, and the calls made.
ParseHardware(as) ==
    argsLoop([hc |-> EmptyHC, err |-> NoErr, calls |-> <<>>], as)

\* Mutant of String: tags are rendered whenever they are set, the test
\* len(*hc.Tags) > 0 being left out.
String_emptyTags(hc) ==
    LET eqs(k) == k \o <<"=">>
        strs ==
            (IF hc.Arch # Nil THEN <<eqs(kArch) \o Deref(hc.Arch)>> ELSE <<>>)
         \o (IF hc.CpuCores # Nil
             THEN <<eqs(kCores) \o Itoa(Deref(hc.CpuCores))>> ELSE <<>>)
         \o (IF hc.CpuPower # Nil
             THEN <<eqs(kCpuPower) \o Itoa(Deref(hc.CpuPower))>> ELSE <<>>)
         \o (IF hc.Mem # Nil
             THEN <<eqs(kMem) \o Itoa(Deref(hc.Mem)) \o <<"M">> >> ELSE <<>>)
         \o (IF hc.RootDisk # Nil
             THEN <<eqs(kRootDisk) \o Itoa(Deref(hc.RootDisk)) \o <<"M">> >>
             ELSE <<>>)
         \o (IF hc.Tags # Nil
             THEN <<eqs(kTags) \o Join(Deref(hc.Tags), <<",">>)>> ELSE <<>>)
         \o (IF hc.AvailabilityZone # Nil /\ Deref(hc.AvailabilityZone) # <<>>
             THEN <<eqs(kAZ) \o Deref(hc.AvailabilityZone)>> ELSE <<>>)
    IN  Join(strs, <<" ">>)

\* HardwareCharacteristics.String.
String(hc) ==
    LET eqs(k) == k \o <<"=">>
        strs ==
            (IF hc.Arch # Nil THEN <<eqs(kArch) \o Deref(hc.Arch)>> ELSE <<>>)
         \o (IF hc.CpuCores # Nil
             THEN <<eqs(kCores) \o Itoa(Deref(hc.CpuCores))>> ELSE <<>>)
         \o (IF hc.CpuPower # Nil
             THEN <<eqs(kCpuPower) \o Itoa(Deref(hc.CpuPower))>> ELSE <<>>)
         \o (IF hc.Mem # Nil
             THEN <<eqs(kMem) \o Itoa(Deref(hc.Mem)) \o <<"M">> >> ELSE <<>>)
         \o (IF hc.RootDisk # Nil
             THEN <<eqs(kRootDisk) \o Itoa(Deref(hc.RootDisk)) \o <<"M">> >>
             ELSE <<>>)
         \o (IF hc.Tags # Nil /\ Len(Deref(hc.Tags)) > 0
             THEN <<eqs(kTags) \o Join(Deref(hc.Tags), <<",">>)>> ELSE <<>>)
         \o (IF hc.AvailabilityZone # Nil /\ Deref(hc.AvailabilityZone) # <<>>
             THEN <<eqs(kAZ) \o Deref(hc.AvailabilityZone)>> ELSE <<>>)
    IN  Join(strs, <<" ">>)


(***************************************************************************)
(* The inputs: tokens, and the ways of laying a token sequence out over   *)
(* argument strings.                                                       *)
(***************************************************************************)
Tok(name, value) == name \o <<"=">> \o value

\* Tokens from which sequences of up to MaxTokens tokens are drawn.
SeqTokens ==
    {Tok(kArch, <<"a", "m", "d", "6", "4">>),
     Tok(kArch, <<>>),
     Tok(kCores, <<"4">>),
     Tok(kCores, <<>>),
     Tok(kCpuPower, <<"2", "5", "0">>),
     Tok(kMem, <<"1", "G">>),
     Tok(kMem, <<"a", "b", "c">>),
     Tok(kRootDisk, <<"2", "T">>),
     Tok(kTags, <<"f", "o", "o", ",", "b", "a", "r">>),
     Tok(kTags, <<>>),
     Tok(kTags, <<"a", "\t">>),
     Tok(kAZ, <<"a", "z", "1">>),
     Tok(kAZ, <<>>),
     <<"b", "o", "g", "u", "s", "=", "1">>,
     <<"=", "x">>}

\* Further tokens, each parsed as the only token of a call.
SingleTokens ==
    {Tok(kArch, <<"a", "r", "m", "6", "4">>),
     Tok(kArch, <<"m", "i", "p", "s">>),
     Tok(kCores, <<"0">>),
     Tok(kCores, <<"-", "1">>),
     Tok(kCores, <<"4", "M">>),
     Tok(kCores, <<"1", ".", "5">>),
     Tok(kCores, <<"+", "1">>),
     Tok(kCpuPower, <<>>),
     Tok(kCpuPower, <<"a", "b", "c">>),
     Tok(kMem, <<>>),
     Tok(kMem, <<"1", ".", "5", "G">>),
     Tok(kMem, <<"4", "G">>),
     Tok(kMem, <<"2", "G">>),
     Tok(kMem, <<"5", "1", "2">>),
     Tok(kMem, <<"2", "0", "4", "8", "M">>),
     Tok(kMem, <<"0", ".", "5">>),
     Tok(kMem, <<"0", ".", "0", "0", "1", "P">>),
     Tok(kMem, <<"1", "T">>),
     Tok(kMem, <<".", "5", "G">>),
     Tok(kMem, <<"1", ".">>),
     Tok(kMem, <<"+", "1">>),
     Tok(kMem, <<"-", "0">>),
     Tok(kMem, <<"M">>),
     Tok(kMem, <<"-", "5">>),
     Tok(kMem, <<"-", "0", ".", "5", "G">>),
     Tok(kMem, <<".">>),
     Tok(kMem, <<"1", ".", "2", ".", "3">>),
     Tok(kMem, <<"1", "G", "G">>),
     Tok(kMem, <<"1", "g">>),
     Tok(kMem, <<"G", "1">>),
     Tok(kRootDisk, <<>>),
     Tok(kRootDisk, <<"8", "1", "9", "2">>),
     Tok(kRootDisk, <<"1", "P">>),
     Tok(kRootDisk, <<"0", ".", "5", "M">>),
     Tok(kRootDisk, <<"T">>),
     Tok(kRootDisk, <<"-", "1", "G">>),
     Tok(kRootDisk, <<"a", "b", "c">>),
     Tok(kTags, <<"a">>),
     Tok(kTags, <<",">>),
     Tok(kTags, <<"a", ",", ",", "b">>),
     Tok(kTags, <<"a", "=", "b">>),
     Tok(kAZ, <<"a", "=", "b">>),
     Tok(kAZ, <<"z", "\t">>),
     <<"b", "o", "g", "u", "s">>,
     <<"=">>,
     <<"=", "m", "e", "m">>,
     <<"m", "e", "m">>,
     <<"M", "e", "m", "=", "1">>,
     <<"b", "o", "g", "u", "s", "=">>,
     Tok(kArch, <<"a", "m", "d", "6", "4", "=">>)}

\* The tokens of the example "arch=amd64 cores=4 mem=2G tags=foo,bar availability-zone=az1".
ExampleTokens ==
    <<Tok(kArch, <<"a", "m", "d", "6", "4">>),
      Tok(kCores, <<"4">>),
      Tok(kMem, <<"2", "G">>),
      Tok(kTags, <<"f", "o", "o", ",", "b", "a", "r">>),
      Tok(kAZ, <<"a", "z", "1">>)>>

SeqsUpTo(S, n) == UNION {[1..k -> S] : k \in 0..n}

TokenSeqs ==
    SeqsUpTo(SeqTokens, MaxTokens)
        \cup {<<t>> : t \in SingleTokens}
        \cup {ExampleTokens}

\* What stands between two consecutive tokens: one space, two spaces, or the
\* end of one argument string and the start of the next.
Separators == {"space", "spaces", "arg"}

Pad(pad) == IF pad THEN <<" ">> ELSE <<>>

\* The argument strings that hold toks, with seps[i] between token i and
\* token i+1; with pad, every argument string starts and ends with a space.
\* cur is the argument string under construction.
RECURSIVE LayoutFrom(_, _, _, _, _)
LayoutFrom(toks, seps, pad, i, cur) ==
    LET c == cur \o toks[i] IN
    IF i = Len(toks) THEN <<c \o Pad(pad)>>
    ELSE IF seps[i] = "arg"
    THEN <<c \o Pad(pad)>> \o LayoutFrom(toks, seps, pad, i + 1, Pad(pad))
    ELSE LayoutFrom(toks, seps, pad, i + 1,
                    c \o (IF seps[i] = "space" THEN <<" ">> ELSE <<" ", " ">>))

Layout(toks, seps, pad) ==
    IF toks = <<>> THEN (IF pad THEN <<Pad(pad)>> ELSE <<>>)
    ELSE LayoutFrom(toks, seps, pad, 1, Pad(pad))

\* Records a caller builds as a struct literal, field by field.
foo == <<"f", "o", "o">>
bar == <<"b", "a", "r">>
az1 == <<"a", "z", "1">>

Literals ==
    [Arch : {Nil, Ptr(<<>>), Ptr(amd64)},
     Mem : {Nil, Ptr(2048)},
     RootDisk : {Nil, Ptr(8192)},
     CpuCores : {Nil, Ptr(0), Ptr(4)},
     CpuPower : {Nil, Ptr(250)},
     Tags : {Nil, Ptr(<<>>), Ptr(<<foo, bar>>)},
     AvailabilityZone : {Nil, Ptr(<<>>), Ptr(az1)}]

(***************************************************************************)
(* State.                                                                  *)
(***************************************************************************)
VARIABLES
    pc,        \* position in the scenario
    origin,    \* how rec came about: "none", "parse" or "literal"
    tokens,    \* the token sequence of the call
    args,      \* the argument strings of the call: a layout of tokens
    res,       \* what ParseHardware(args...) returned, and its setRaw calls
    resSep,    \* what ParseHardware returned for one argument per token
    rec,       \* the record String is called on
    str,       \* what rec.String() returned
    res2,      \* what ParseHardware(str) returned
    settings,  \* relation id -> the relation's settings (key -> value)
    cmd,       \* the RelationSetCommand last run: RelationId, Settings
    readable,  \* whether r.Settings() succeeded in the last run
    runErr,    \* the error the last Run returned ("" is nil)
    runs       \* number of Runs so far

hwVars == <<pc, origin, tokens, args, res, resSep, rec, str, res2>>
rsVars == <<settings, cmd, readable, runErr, runs>>
vars == <<pc, origin, tokens, args, res, resSep, rec, str, res2,
          settings, cmd, readable, runErr, runs>>

NoResult == [hc |-> EmptyHC, err |-> NoErr, calls |-> <<>>]

(***************************************************************************)
(* relation-set: the settings object and RelationSetCommand.Run.           *)
(***************************************************************************)
RelationIds == {0, 1}
SettingKeys == {"k1", "k2"}
SettingValues == {"x", "y"}

\* The maps from some of the keys to values of V.
MapsTo(V) == UNION {[K -> V] : K \in SUBSET SettingKeys}

\* Settings.Set of the jujuc context.
SettingsSet(s, k, v) ==
    [x \in DOMAIN s \cup {k} |-> IF x = k THEN v ELSE s[x]]

\* Settings.Delete of the jujuc context.
SettingsDelete(s, k) == [x \in DOMAIN s \ {k} |-> s[x]]

\* Mutant of rangeSettings: every key is Set, the test v != "" being left out.
RECURSIVE rangeSettings_alwaysSet(_, _, _)
rangeSettings_alwaysSet(s, cs, ks) ==
    IF ks = {} THEN s
    ELSE LET k == CHOOSE x \in ks : TRUE IN
         rangeSettings_alwaysSet(SettingsSet(s, k, cs[k]), cs, ks \ {k})

\* The range loop of Run over c.Settings, ks being the keys still to visit.
\* Go visits the keys of a map in no fixed order; each key is visited once.
RECURSIVE rangeSettings(_, _, _)
rangeSettings(s, cs, ks) ==
    IF ks = {} THEN s
    ELSE LET k == CHOOSE x \in ks : TRUE IN
         rangeSettings(IF cs[k] # "" THEN SettingsSet(s, k, cs[k])
                                     ELSE SettingsDelete(s, k),
                       cs, ks \ {k})

UnknownRelation == "unknown relation id"
CannotRead      == "cannot read relation settings"

\* RelationSetCommand.Run for the command c, ok telling whether r.Settings()
\* succeeds: the settings of every relation afterwards and the error.  The
\* deprecation notice Run writes to stderr for --format touches no setting.
runCommand(all, c, ok) ==
    IF c.RelationId \notin DOMAIN all
    THEN [settings |-> all, err |-> UnknownRelation]
    ELSE IF ~ok
    THEN [settings |-> all, err |-> CannotRead]
    ELSE [settings |->
            [all EXCEPT ![c.RelationId] =
                rangeSettings(@, c.Settings, DOMAIN c.Settings)],
          err |-> ""]

NoCommand == [RelationId |-> -1, Settings |-> <<>>]

Run ==
    /\ runs < MaxRuns
    /\ \E id \in RelationIds \cup {2},
          cs \in MapsTo(SettingValues \cup {""}),
          ok \in BOOLEAN :
         LET c == [RelationId |-> id, Settings |-> cs]
             r == runCommand(settings, c, ok)
         IN  /\ cmd' = c
             /\ readable' = ok
             /\ settings' = r.settings
             /\ runErr' = r.err
    /\ runs' = runs + 1
    /\ UNCHANGED hwVars

(***************************************************************************)
(* The codec's operations.                                                 *)
(***************************************************************************)
\* ParseHardware(args...).
Parse ==
    /\ pc = "start"
    /\ res' = ParseHardware(args)
    /\ rec' = ParseHardware(args).hc
    /\ origin' = "parse"
    /\ pc' = "parsed"
    /\ UNCHANGED <<tokens, args, resSep, str, res2>>
    /\ UNCHANGED rsVars

\* ParseHardware called with the same tokens, one argument string each.
ParseSeparately ==
    /\ pc = "parsed"
    /\ resSep' = ParseHardware(tokens)
    /\ pc' = "record"
    /\ UNCHANGED <<origin, tokens, args, res, rec, str, res2>>
    /\ UNCHANGED rsVars

\* A caller builds the record itself instead of parsing it.
Literal ==
    /\ pc = "start"
    /\ args = <<>>
    /\ \E hc \in Literals : rec' = hc
    /\ origin' = "literal"
    /\ pc' = "record"
    /\ UNCHANGED <<tokens, args, res, resSep, str, res2>>
    /\ UNCHANGED rsVars

\* rec.String().
Format ==
    /\ pc = "record"
    /\ str' = String(rec)
    /\ pc' = "formatted"
    /\ UNCHANGED <<origin, tokens, args, res, resSep, rec, res2>>
    /\ UNCHANGED rsVars

\* ParseHardware(rec.String()).
Reparse ==
    /\ pc = "formatted"
    /\ res2' = ParseHardware(<<str>>)
    /\ pc' = "reparsed"
    /\ UNCHANGED <<origin, tokens, args, res, resSep, rec, str>>
    /\ UNCHANGED rsVars

(***************************************************************************)
(* Specifications.                                                         *)
(***************************************************************************)
HwIdle ==
    /\ origin = "none"
    /\ res = NoResult
    /\ resSep = NoResult
    /\ rec = EmptyHC
    /\ str = <<>>
    /\ res2 = NoResult

\* The codec: a call of ParseHardware on some layout of some tokens.
Init ==
    /\ pc = "start"
    /\ tokens \in TokenSeqs
    /\ \E seps \in [1..(Len(tokens) - 1) -> Separators], pad \in BOOLEAN :
         args = Layout(tokens, seps, pad)
    /\ HwIdle
    /\ settings = [id \in RelationIds |-> <<>>]
    /\ cmd = NoCommand
    /\ readable = TRUE
    /\ runErr = ""
    /\ runs = 0

Next == Parse \/ ParseSeparately \/ Literal \/ Format \/ Reparse

Spec == Init /\ [][Next]_vars

\* relation-set: successive commands against the relations' settings.
InitRS ==
    /\ pc = "relation-set"
    /\ tokens = <<>>
    /\ args = <<>>
    /\ HwIdle
    /\ settings \in [RelationIds -> MapsTo(SettingValues)]
    /\ cmd = NoCommand
    /\ readable = TRUE
    /\ runErr = ""
    /\ runs = 0

NextRS == Run

SpecRS == InitRS /\ [][NextRS]_vars

(***************************************************************************)
(* Vocabulary of the properties.                                           *)
(***************************************************************************)
\* The text of a token before its first "=" (all of it when it has none).
RECURSIVE Before(_)
Before(raw) ==
    IF raw = <<>> \/ Head(raw) = "=" THEN <<>>
    ELSE <<Head(raw)>> \o Before(Tail(raw))

HasEq(raw) == \E i \in 1..Len(raw) : raw[i] = "="

\* The text of a token after its first "=".
After(raw) == SubSeq(raw, Len(Before(raw)) + 2, Len(raw))

\* ParseHardware has returned for the call on args.
Returned == origin = "parse"

\* The raws handed to setRaw whose key is name.
CallsOf(name) ==
    {i \in DOMAIN res.calls :
        HasEq(res.calls[i]) /\ Before(res.calls[i]) = name}

\* The call consisted of the single token name=value.
Only(name, value) == Returned /\ tokens = <<Tok(name, value)>>

SizeNames == {kMem, kRootDisk}

SizeField(hc, name) == IF name = kMem THEN hc.Mem ELSE hc.RootDisk

\* The order in which String renders the fields.
KeyOrder == <<kArch, kCores, kCpuPower, kMem, kRootDisk, kTags, kAZ>>

Field(hc, name) ==
    CASE name = kArch     -> hc.Arch
      [] name = kCores    -> hc.CpuCores
      [] name = kCpuPower -> hc.CpuPower
      [] name = kMem      -> hc.Mem
      [] name = kRootDisk -> hc.RootDisk
      [] name = kTags     -> hc.Tags
      [] name = kAZ       -> hc.AvailabilityZone

\* The tokens of a rendered string.
Rendered(s) == IF s = <<>> THEN <<>> ELSE Split(s, " ")

RECURSIVE Names(_)
Names(toks) ==
    IF toks = <<>> THEN <<>> ELSE <<Before(Head(toks))>> \o Names(Tail(toks))

(***************************************************************************)
(* Properties.                                                             *)
(***************************************************************************)
\* C1: within one ParseHardware call, whenever two tokens handed to setRaw
\* carry the same recognized key, whatever their values, the later one makes
\* the call fail with the "already set" error for that key.
C1_SecondAssignmentFails ==
    Returned =>
        \A i, j \in DOMAIN res.calls :
            (/\ i < j
             /\ HasEq(res.calls[i])
             /\ HasEq(res.calls[j])
             /\ Before(res.calls[i]) \in KnownNames
             /\ Before(res.calls[i]) = Before(res.calls[j]))
            => /\ j = Len(res.calls)
               /\ res.err = ErrBad(Before(res.calls[j]), AlreadySet)

\* C2: for every record r returned by a successful ParseHardware call,
\* ParseHardware(r.String()) succeeds and returns r field by field, except
\* that an explicitly-empty tags sequence comes back unspecified.
C2_RoundTrip ==
    (pc = "reparsed" /\ origin = "parse" /\ res.err = NoErr) =>
        /\ res2.err = NoErr
        /\ res2.hc = IF rec.Tags = Ptr(<<>>)
                     THEN [rec EXCEPT !.Tags = Nil]
                     ELSE rec

\* C4: a call on any layout of a token sequence over argument strings
\* (single or repeated spaces, leading and trailing spaces, any split into
\* arguments) returns the same record or the same error as the call with
\* one argument string per token.
C4_LayoutIndependent ==
    (origin = "parse" /\ pc \in {"record", "formatted", "reparsed"}) =>
        /\ res.hc = resSep.hc
        /\ res.err = resSep.err

\* A rendered token states its field's value: decimal digits for the numeric
\* fields, followed by "M" for mem and root-disk and by nothing for cores and
\* cpu-power; the text itself for arch and availability-zone; the tags
\* joined by commas.
TokenStates(tok, hc) ==
    LET name == Before(tok)
        text == After(tok)
        f    == Field(hc, name)
        num  == IF name \in SizeNames
                THEN SubSeq(text, 1, Len(text) - 1) ELSE text
    IN  /\ HasEq(tok)
        /\ f # Nil
        /\ name \in {kCores, kCpuPower, kMem, kRootDisk} =>
              /\ num # <<>>
              /\ AllDigits(num)
              /\ DigitsVal(num) = Deref(f)
        /\ name \in SizeNames => text[Len(text)] = "M"
        /\ name \in {kArch, kAZ} => text = Deref(f)
        /\ name = kTags => Split(text, ",") = Deref(f)

RECURSIVE Keep(_, _)
Keep(names, S) ==
    IF names = <<>> THEN <<>>
    ELSE (IF Head(names) \in S THEN <<Head(names)>> ELSE <<>>)
             \o Keep(Tail(names), S)

\* The rendered tokens of str are those of the fields in S, in String's
\* order, separated by single spaces, each stating its field's value.
RendersExactly(S) ==
    LET toks == Rendered(str) IN
    /\ Names(toks) = Keep(KeyOrder, S)
    /\ \A i \in DOMAIN toks : TokenStates(toks[i], rec)

ExampleString ==
    Tok(kArch, amd64) \o <<" ">> \o Tok(kCores, <<"4">>) \o <<" ">>
        \o Tok(kMem, <<"2", "0", "4", "8", "M">>) \o <<" ">>
        \o Tok(kTags, foo \o <<",">> \o bar) \o <<" ">> \o Tok(kAZ, az1)

\* C3 as claimed, for the records ParseHardware returns: String returns
\* exactly one key=value token per set field and none for an unspecified
\* one, in the order arch, cores, cpu-power, mem,
\* root-disk, tags, availability-zone, joined by single spaces.
C3_OneTokenPerSetField ==
    (pc \in {"formatted", "reparsed"} /\ origin = "parse") =>
        RendersExactly({n \in KnownNames : Field(rec, n) # Nil})

\* C3 as amended: String returns exactly one key=value token per set field,
\* except that a set but zero-length tags sequence and a set but empty
\* availability zone get no token; the tokens come in the order arch, cores,
\* cpu-power, mem, root-disk, tags, availability-zone whatever the order of
\* parsing, joined by single spaces; mem and root-disk carry an "M" suffix,
\* cores and cpu-power none; and the example of the claim renders as stated.
C3_TokenPerNonEmptyField ==
    pc \in {"formatted", "reparsed"} =>
        /\ RendersExactly({n \in KnownNames :
                /\ Field(rec, n) # Nil
                /\ n \in {kTags, kAZ} => Deref(Field(rec, n)) # <<>>})
        /\ (origin = "parse" /\ tokens = ExampleTokens) => str = ExampleString

\* C3 witness: a record parsed from tokens given out of String's order,
\* with explicitly-empty tags, has been rendered.
C3_Witness ==
    /\ pc = "formatted"
    /\ origin = "parse"
    /\ tokens = <<Tok(kTags, <<>>), Tok(kArch, amd64)>>
    /\ str = Tok(kArch, amd64)

\* The first token of toks, from index i on, at which setRaw fails when the
\* tokens are handed to it in order starting from hc (k = 0: none fails).
RECURSIVE FirstInvalid(_, _, _)
FirstInvalid(hc, toks, i) ==
    IF i > Len(toks) THEN [k |-> 0, err |-> NoErr]
    ELSE LET r == setRaw(hc, toks[i]) IN
         IF r.err # NoErr THEN [k |-> i, err |-> r.err]
         ELSE FirstInvalid(r.hc, toks, i + 1)

\* C5: when some token of the call is invalid, the call returns the error of
\* the first invalid token in left-to-right order over all argument strings,
\* the tokens up to it and none after it were processed, and the returned
\* record has every field unspecified; otherwise every token was processed.
C5_FirstErrorNoPartialRecord ==
    Returned =>
        LET first == FirstInvalid(EmptyHC, tokens, 1) IN
        IF first.k > 0
        THEN /\ res.err = first.err
             /\ res.err # NoErr
             /\ Len(res.calls) = first.k
             /\ Before(res.calls[first.k]) = Before(tokens[first.k])
             /\ res.hc = EmptyHC
        ELSE /\ res.err = NoErr
             /\ Len(res.calls) = Len(tokens)

\* C5 witness: a valid token assigned a field, the next token was invalid,
\* and the call returned.
C5_Witness ==
    /\ Returned
    /\ tokens = <<Tok(kArch, amd64), Tok(kMem, <<"a", "b", "c">>)>>
    /\ Len(args) = 2
    /\ res.err = ErrBad(kMem, BadSize)

\* A size value and the megabytes it stands for, worked out by hand.
SizeExamples ==
    {<<<<"1", "G">>, 1024>>,
     <<<<"1", ".", "5", "G">>, 1536>>,
     <<<<"4", "G">>, 4096>>,
     <<<<"2", "G">>, 2048>>,
     <<<<"2", "T">>, 2097152>>,
     <<<<"1", "T">>, 1048576>>,
     <<<<"1", "P">>, 1073741824>>,
     <<<<"0", ".", "0", "0", "1", "P">>, 1073742>>,
     <<<<"5", "1", "2">>, 512>>,
     <<<<"8", "1", "9", "2">>, 8192>>,
     <<<<"2", "0", "4", "8", "M">>, 2048>>,
     <<<<"0", ".", "5">>, 1>>,
     <<<<"0", ".", "5", "M">>, 1>>,
     <<<<".", "5", "G">>, 512>>,
     <<<<"1", ".">>, 1>>,
     <<<<"+", "1">>, 1>>}

\* A size value without at most one trailing M, G, T or P.
Unsuffixed(v) ==
    IF v # <<>> /\ v[Len(v)] \in {"M", "G", "T", "P"}
    THEN SubSeq(v, 1, Len(v) - 1) ELSE v

\* The multiplier the claim gives for the suffix of a size value.
Multiplier(v) ==
    IF v = <<>> THEN 1
    ELSE CASE v[Len(v)] = "G" -> 1024
           [] v[Len(v)] = "T" -> 1024 * 1024
           [] v[Len(v)] = "P" -> 1024 * 1024 * 1024
           [] OTHER -> 1

\* The text is a non-negative decimal number.
IsNonNegativeNumber(text) ==
    LET f == ParseFloat(text) IN f.ok /\ ~(f.neg /\ f.num > 0)

\* C6: for mem and root-disk, a value made of a non-negative decimal number
\* n and an optional suffix yields the least integer that is at least n * m,
\* with m = 1 for no suffix or M, 1024 for G, 1024^2 for T and 1024^3 for P:
\* mem=1G gives 1024, mem=1.5G 1536, mem=4G 4096, root-disk=2T 2097152, and
\* a fractional product is rounded up.
C6_SizeIsCeiling ==
    \A name \in SizeNames :
        /\ \A e \in SizeExamples :
              Only(name, e[1]) =>
                  res.err = NoErr /\ SizeField(res.hc, name) = Ptr(e[2])
        /\ \A i \in CallsOf(name) :
              LET v == After(res.calls[i])
                  n == ParseFloat(Unsuffixed(v))
                  m == Multiplier(v)
              IN  (Returned /\ res.err = NoErr /\ v # <<>>
                      /\ IsNonNegativeNumber(Unsuffixed(v))) =>
                      /\ SizeField(res.hc, name) # Nil
                      /\ LET mb == Deref(SizeField(res.hc, name)) IN
                         /\ mb * n.den >= n.num * m
                         /\ (mb - 1) * n.den < n.num * m

\* C6 witness: a fractional number of gigabytes was parsed and rounded up.
C6_Witness ==
    /\ Only(kMem, <<"0", ".", "0", "0", "1", "P">>)
    /\ res.hc.Mem = Ptr(1073742)

\* Size values that are no non-negative number once a trailing suffix is
\* removed.
BadSizeExamples ==
    {<<"M">>, <<"T">>, <<"-", "5">>, <<"-", "0", ".", "5", "G">>,
     <<"-", "1", "G">>, <<".">>, <<"1", ".", "2", ".", "3">>,
     <<"1", "G", "G">>, <<"1", "g">>, <<"G", "1">>, <<"a", "b", "c">>}

\* The call failed at its last setRaw call with the invalid-number error
\* of a size field.
FailsAsBadSize(name) ==
    /\ res.err = ErrBad(name, BadSize)
    /\ res.hc = EmptyHC

\* C7 as claimed: for mem and root-disk the call fails with the
\* invalid-number error for every value whose text, after removing at most
\* one trailing M, G, T or P, is negative or no valid floating-point number,
\* the case where no text remains included; an empty value yields zero only
\* for cores and cpu-power.
C7_InvalidSizeFails ==
    \A name \in SizeNames :
        \A i \in CallsOf(name) :
            (/\ Returned
             /\ CallsOf(name) = {i}
             /\ ~IsNonNegativeNumber(Unsuffixed(After(res.calls[i]))))
            => FailsAsBadSize(name)

\* C7 as amended: for mem and root-disk the call fails with the
\* invalid-number error for every non-empty value whose text, after removing
\* at most one trailing M, G, T or P, is negative or no valid floating-point
\* number, the case where only the suffix was given included; an empty value
\* is accepted and yields zero for mem and root-disk as it does for cores
\* and cpu-power.
C7_InvalidNonEmptySizeFails ==
    /\ \A name \in SizeNames :
          /\ \A v \in BadSizeExamples :
                Only(name, v) => FailsAsBadSize(name)
          /\ \A i \in CallsOf(name) :
                LET v == After(res.calls[i]) IN
                (Returned /\ CallsOf(name) = {i}) =>
                    /\ (v # <<>> /\ ~IsNonNegativeNumber(Unsuffixed(v)))
                          => FailsAsBadSize(name)
                    /\ (v = <<>> /\ res.err = NoErr)
                          => SizeField(res.hc, name) = Ptr(0)
                    /\ v = <<>> => res.err # ErrBad(name, BadSize)
    /\ \A name \in {kCores, kCpuPower} :
          \A i \in CallsOf(name) :
              (/\ Returned
               /\ CallsOf(name) = {i}
               /\ After(res.calls[i]) = <<>>
               /\ res.err = NoErr)
              => Field(res.hc, name) = Ptr(0)

\* C7 witness: mem with an empty value was parsed and accepted as zero.
C7_Witness ==
    /\ Only(kMem, <<>>)
    /\ res.err = NoErr
    /\ res.hc.Mem = Ptr(0)

\* C8: a token with an empty value is accepted for arch, tags and
\* availability-zone (it fails only when its key was given before): "arch="
\* sets the architecture to the empty string without asking the allow-list,
\* "tags=" sets tags to a zero-length sequence, "availability-zone=" leaves
\* the zone unspecified; after a successful parse the zone is unspecified
\* or a non-empty string.
C8_EmptyValues ==
    Returned =>
        /\ \A name \in {kArch, kTags, kAZ} :
              \A i \in CallsOf(name) :
                  After(res.calls[i]) = <<>> =>
                      /\ (i = Len(res.calls) /\ res.err # NoErr) =>
                            /\ res.err = ErrBad(name, AlreadySet)
                            /\ \E j \in CallsOf(name) : j < i
                      /\ (res.err = NoErr /\ CallsOf(name) = {i}) =>
                            Field(res.hc, name) =
                                IF name = kAZ THEN Nil ELSE Ptr(<<>>)
        /\ Only(kArch, <<>>) => res.err = NoErr /\ ~IsSupportedArch(<<>>)
        /\ res.err = NoErr =>
              \/ res.hc.AvailabilityZone = Nil
              \/ Deref(res.hc.AvailabilityZone) # <<>>

\* C8 witness: "arch=" and "availability-zone=" were parsed in one call.
C8_Witness ==
    /\ Returned
    /\ tokens = <<Tok(kArch, <<>>), Tok(kAZ, <<>>)>>
    /\ res.err = NoErr
    /\ res.hc.Arch = Ptr(<<>>)

\* C10: every token handed to setRaw is split at its first "=": one with no
\* "=" or starting with "=" fails as malformed, whether or not its text is a
\* recognized key; otherwise the text before the first "=" is the key and all
\* the text after it, further "=" included, is the value; a key outside the
\* seven recognized ones fails as an unknown characteristic.
C10_SplitAtFirstEquals ==
    Returned =>
        \A i \in DOMAIN res.calls :
            LET raw  == res.calls[i]
                name == Before(raw)
                v    == After(raw)
            IN  /\ raw # <<>>
                /\ (~HasEq(raw) \/ name = <<>>) =>
                      /\ i = Len(res.calls)
                      /\ res.err = ErrMalformed(raw)
                /\ (HasEq(raw) /\ name # <<>> /\ name \notin KnownNames) =>
                      /\ i = Len(res.calls)
                      /\ res.err = ErrUnknown(name)
                /\ (HasEq(raw) /\ name \in KnownNames) =>
                      /\ res.err.kind = "bad characteristic"
                            => res.err.subject = Before(res.calls[Len(res.calls)])
                      /\ i < Len(res.calls) \/ res.err = NoErr
                            \/ res.err.kind = "bad characteristic"
                      /\ (res.err = NoErr /\ name = kTags /\ v # <<>>) =>
                            res.hc.Tags = Ptr(Split(v, ","))
                      /\ (res.err = NoErr /\ name = kAZ /\ v # <<>>) =>
                            res.hc.AvailabilityZone = Ptr(v)
                      /\ (name = kArch /\ v \notin {<<>>, amd64, arm64}
                              /\ CallsOf(kArch) = {i}) =>
                            res.err = ErrBad(kArch, NotRecognized)

\* C10 witness: a token whose value holds a further "=" was parsed.
C10_Witness ==
    /\ Only(kTags, <<"a", "=", "b">>)
    /\ res.hc.Tags = Ptr(<<<<"a", "=", "b">>>>)

\* The value of key k in the settings map s ("" when s does not hold k;
\* no stored value is empty).
ValueIn(s, k) == IF k \in DOMAIN s THEN s[k] ELSE ""

\* C9: a Run that finds the relation and reads its settings leaves every key
\* of the command's Settings with a non-empty value holding that value,
\* removes every key whose value is the empty string and leaves every other
\* key, and every other relation, unchanged; a Run on an unknown relation id
\* or on settings that cannot be read returns an error and changes nothing.
C9_RunEffect ==
    [][runs' = runs + 1 =>
          LET id  == cmd'.RelationId
              cs  == cmd'.Settings
          IN  IF id \in RelationIds /\ readable'
              THEN /\ runErr' = ""
                   /\ \A k \in DOMAIN cs :
                         /\ cs[k] # "" =>
                               /\ k \in DOMAIN settings'[id]
                               /\ settings'[id][k] = cs[k]
                         /\ cs[k] = "" => k \notin DOMAIN settings'[id]
                   /\ \A k \in SettingKeys \ DOMAIN cs :
                         /\ k \in DOMAIN settings'[id] <=> k \in DOMAIN settings[id]
                         /\ ValueIn(settings'[id], k) = ValueIn(settings[id], k)
                   /\ \A other \in RelationIds \ {id} :
                         settings'[other] = settings[other]
              ELSE /\ runErr' = IF id \in RelationIds
                                THEN CannotRead ELSE UnknownRelation
                   /\ settings' = settings
    ]_vars

\* C9 witness: a second Run, on relation 0 with k1 given the empty string and
\* k2 not named, succeeded, and the relation holds k2 alone.
C9_Witness ==
    /\ runs = 2
    /\ runErr = ""
    /\ cmd = [RelationId |-> 0, Settings |-> [k \in {"k1"} |-> ""]]
    /\ settings[0] = [k \in {"k2"} |-> "y"]

=============================================================================
